---- MODULE Spec2Model ----
(***************************************************************************)
(* Model of aggregator/scrapers.py: the HTTP fetch with manual retry and   *)
(* backoff (BaseScraper._make_request), the date normaliser                *)
(* (BaseScraper._parse_date), the per-source extractors (InShortsScaper,   *)
(* HindustanTimesScaper), the mock scrapers and the SCRAPERS registry.     *)
(*                                                                         *)
(* Every operation is a call: Init draws the call and its inputs (the      *)
(* answers of the network, the fetched document, the date text, the source *)
(* identifier, the seed of the random generator), one action per operation *)
(* performs the whole call and records what it returned or raised.         *)
(*                                                                         *)
(* Text is a sequence of pieces (strings); " " is the whitespace piece.    *)
(* Python values are records tagged with their type, so that None, a       *)
(* response, a tag and an exception can be told apart.                     *)
(***************************************************************************)
EXTENDS Integers, Sequences, FiniteSets, TLC

VARIABLES op,      \* the operation this run calls
          arg,     \* its inputs
          pc,      \* "ready" before the call, "done" after it
          ret,     \* the outcome of the last call: a return value or a raise
          events,  \* requests, log records and sleeps of the last call, in order
          rng,     \* the random generator: its seed and the draws consumed
          clock,   \* timezone.now(), in hours
          calls,   \* calls made so far
          prev,    \* the outcome of the call before the last one
          fn       \* the function the registry answered

vars == <<op, arg, pc, ret, events, rng, clock, calls, prev, fn>>

(***************************** bounds **************************************)
MaxSeed == 1          \* seeds of the random generator: 0..MaxSeed
JitterRes == 2        \* random.uniform(0, 1) in steps of 1/JitterRes second
MaxClock == 1         \* timezone.now() at the first call: 0..MaxClock
MaxContainers == 22   \* containers in a fetched document: 0..MaxContainers
MaxSmall == 13        \* one- and two-digit date fields: 0..MaxSmall
MaxCalls == 2         \* successive calls of a registered scrape function

(************************ Python values ************************************)
None == [type |-> "NoneType"]

Return(v) == [kind |-> "return", value |-> v]
Raise(cls) == [kind |-> "raise", exc |-> cls]

Min(a, b) == IF a < b THEN a ELSE b

RECURSIVE Pow2(_)
Pow2(n) == IF n = 0 THEN 1 ELSE 2 * Pow2(n - 1)

(************************ random ********************************************)
\* The generator is pseudo-random: the seed fixes the stream of draws.
RandomRaw(seed, pos) == seed * 7 + pos * (2 * seed + 3)

randint(a, b, g) == a + (RandomRaw(g.seed, g.pos) % (b - a + 1))

\* random.uniform(0, 1), in units of 1/JitterRes: a value in [0, 1)
uniform01(g) == RandomRaw(g.seed, g.pos) % JitterRes

Advance(g) == [g EXCEPT !.pos = @ + 1]

(************************ transport ****************************************)
status_forcelist == {429, 500, 502, 503, 504}

\* requests.exceptions.RequestException and its subclasses
RequestExceptions == {"Timeout", "ConnectionError", "RetryError", "HTTPError"}

\* What the network answers to one session.get
NetAnswers ==
    {[net |-> "timeout"], [net |-> "reset"], [net |-> "fault"]}
        \cup {[net |-> "status", code |-> c] : c \in {200, 404, 503}}

Response(code, content) == [type |-> "Response", status |-> code, content |-> content]

\* session.get through the adapter mounted by _create_session: a status of the
\* forcelist is retried by the adapter and ends in RetryError; "fault" is an
\* error that is not a RequestException.
SessionGet(ans, content) ==
    CASE ans.net = "timeout" -> Raise("Timeout")
      [] ans.net = "reset"   -> Raise("ConnectionError")
      [] ans.net = "fault"   -> Raise("OtherError")
      [] ans.net = "status"  ->
            IF ans.code \in status_forcelist
            THEN Raise("RetryError")
            ELSE Return(Response(ans.code, content))

\* response.raise_for_status()
RaiseForStatus(resp) ==
    IF resp.status >= 400 /\ resp.status < 600 THEN Raise("HTTPError") ELSE Return(None)

\* bool(response) is response.ok
ResponseTruthy(r) == r.type = "Response" /\ r.status < 400

max_retries == 3
base_delay == 1

\* The try block of one attempt: session.get, then raise_for_status
Attempt(ans, content) ==
    LET got == SessionGet(ans, content)
    IN  IF got.kind = "raise" THEN got
        ELSE LET chk == RaiseForStatus(got.value)
             IN  IF chk.kind = "raise" THEN chk ELSE got

EvGet(attempt)        == [ev |-> "get", attempt |-> attempt]
EvWarning(attempt)    == [ev |-> "warning", attempt |-> attempt]
EvSleep(attempt, b, j) == [ev |-> "sleep", attempt |-> attempt, base |-> b, jitter |-> j]
EvError               == [ev |-> "error"]

\* Mutants of the retry loop: a handler that takes every error, a loop that
\* gives up one attempt early, a delay that does not grow
CaughtAny(exc) == TRUE

RetryAfterOnce(attempt) == attempt < max_retries - 2

BackoffFlat(attempt) == base_delay

\* except requests.exceptions.RequestException: the errors the handler takes
Caught(exc) == exc \in RequestExceptions

\* Whether a failed attempt is followed by a sleep and another attempt
RetryAfter(attempt) == attempt < max_retries - 1

\* The delay before the next attempt, without its jitter
Backoff(attempt) == base_delay * Pow2(attempt)

\* BaseScraper._make_request from iteration `attempt` of its for loop on:
\* the outcome, the events so far and the generator after the jitter draws.
RECURSIVE MakeRequestFrom(_, _, _, _, _)
MakeRequestFrom(attempt, answers, content, g, evs) ==
    LET r  == Attempt(answers[attempt + 1], content)
        e1 == Append(evs, EvGet(attempt))
    IN  IF r.kind = "return"
        THEN [out |-> r, events |-> e1, rng |-> g]
        ELSE IF ~Caught(r.exc)
        THEN [out |-> r, events |-> e1, rng |-> g]
        ELSE LET e2 == Append(e1, EvWarning(attempt))
             IN  IF RetryAfter(attempt)
                 THEN MakeRequestFrom(attempt + 1, answers, content, Advance(g),
                        Append(e2, EvSleep(attempt, Backoff(attempt), uniform01(g))))
                 ELSE [out |-> Return(None), events |-> Append(e2, EvError), rng |-> g]

MakeRequest(answers, content, g) == MakeRequestFrom(0, answers, content, g, <<>>)

(************************ date normaliser **********************************)
\* timezone.now(): an aware timestamp
Now(t) == [type |-> "datetime", aware |-> TRUE, hours |-> t]

\* datetime(y, m, d): a naive timestamp
DateTime(y, m, d) == [type |-> "datetime", aware |-> FALSE, year |-> y, month |-> m, day |-> d]

IsLeap(y) == (y % 4 = 0 /\ y % 100 # 0) \/ y % 400 = 0

DaysInMonth(y, m) ==
    IF m = 2 THEN (IF IsLeap(y) THEN 29 ELSE 28)
    ELSE IF m \in {4, 6, 9, 11} THEN 30 ELSE 31

\* Mutant: the two slash formats in the other order
FORMATS_MonthFirst == << [sep |-> "-", dirs |-> <<"Y", "m", "d">>],
                         [sep |-> "/", dirs |-> <<"m", "d", "Y">>],
                         [sep |-> "/", dirs |-> <<"d", "m", "Y">>] >>

\* The formats of _parse_date, in the order of its list: the separator and the
\* directive of each of the three fields.
FORMATS == << [sep |-> "-", dirs |-> <<"Y", "m", "d">>],
              [sep |-> "/", dirs |-> <<"d", "m", "Y">>],
              [sep |-> "/", dirs |-> <<"m", "d", "Y">>] >>

\* Whether a numeric field matches a directive of strptime: %Y takes four
\* digits, %m a month, %d a day of at most two digits.
FieldMatches(dir, n) ==
    CASE dir = "Y" -> n >= 1000 /\ n <= 9999
      [] dir = "m" -> n >= 1 /\ n <= 12
      [] dir = "d" -> n >= 1 /\ n <= 31

FieldOf(text, fmt, dir) == text.fields[CHOOSE i \in 1 .. 3 : fmt.dirs[i] = dir]

\* datetime.strptime(date_str, fmt): the timestamp, ValueError when the text
\* does not match the format or names no day of the calendar, TypeError when
\* date_str is no string.
Strptime(text, fmt) ==
    IF text.type # "str" THEN Raise("TypeError")
    ELSE IF text.sep # fmt.sep \/ Len(text.fields) # 3 THEN Raise("ValueError")
    ELSE IF \E i \in 1 .. 3 : ~FieldMatches(fmt.dirs[i], text.fields[i]) THEN Raise("ValueError")
    ELSE LET y == FieldOf(text, fmt, "Y")
             m == FieldOf(text, fmt, "m")
             d == FieldOf(text, fmt, "d")
         IN  IF d > DaysInMonth(y, m) THEN Raise("ValueError") ELSE Return(DateTime(y, m, d))

\* The for loop of _parse_date from format i on, inside the outer try
RECURSIVE ParseDateFrom(_, _, _)
ParseDateFrom(i, text, now) ==
    IF i > Len(FORMATS) THEN Return(Now(now))
    ELSE LET r == Strptime(text, FORMATS[i])
         IN  IF r.kind = "return" THEN r
             ELSE IF r.exc = "ValueError" THEN ParseDateFrom(i + 1, text, now)
             ELSE r

\* BaseScraper._parse_date: the outer except Exception answers the current
\* time (and logs a warning)
ParseDate(text, now) ==
    LET r == ParseDateFrom(1, text, now)
    IN  IF r.kind = "raise"
        THEN [out |-> Return(Now(now)), events |-> <<[ev |-> "warning", attempt |-> 0]>>]
        ELSE [out |-> r, events |-> <<>>]

\* The date fields the inputs are drawn from: small numbers, the ends of the
\* months, a common year and a leap year.
DateFields == (0 .. MaxSmall) \cup {29, 30, 31, 32} \cup {2023, 2024}

DateTexts ==
    {[type |-> "str", sep |-> s, fields |-> f] :
        s \in {"-", "/"}, f \in [1 .. 3 -> DateFields]}
    \cup {[type |-> "str", sep |-> ".", fields |-> <<1, 2, 2024>>],
          [type |-> "str", sep |-> "-", fields |-> <<2024, 1>>],
          [type |-> "str", sep |-> "", fields |-> <<>>],
          [type |-> "int"], None}

(************************ documents ****************************************)
\* A bs4 Tag: its text and its attributes (a set of <<name, value>> pairs)
Tag(text, attrs) == [type |-> "Tag", text |-> text, attrs |-> attrs]

\* bool(x) of a Tag, of a non-empty dict or of None: only None is false (a Tag
\* is true whatever it holds)
Truthy(x) == x # None

\* tag.get(key, default)
TagGet(tag, key, default) ==
    IF \E p \in tag.attrs : p[1] = key
    THEN (CHOOSE p \in tag.attrs : p[1] = key)[2]
    ELSE default

RECURSIVE LStrip(_)
LStrip(t) == IF t # <<>> /\ Head(t) = " " THEN LStrip(Tail(t)) ELSE t

RECURSIVE RStrip(_)
RStrip(t) == IF t # <<>> /\ t[Len(t)] = " " THEN RStrip(SubSeq(t, 1, Len(t) - 1)) ELSE t

\* tag.get_text(strip=True)
GetText(tag) == RStrip(LStrip(tag.text))

\* The shapes of a container: which of its elements find() locates and what
\* they hold; faulty marks a container whose inspection raises.
TitleShapes == {"none", "blank", "text"}
SummaryShapes == {"none", "text"}
LinkShapes == {"none", "nohref", "href"}

ContainerShapes ==
    {[title |-> t, summary |-> s, link |-> l, faulty |-> FALSE] :
        t \in TitleShapes, s \in SummaryShapes, l \in LinkShapes}
    \cup {[title |-> "text", summary |-> "text", link |-> "href", faulty |-> TRUE]}

\* The container of shape k at position i of its document; its texts carry i
Container(k, i) ==
    [title   |-> CASE k.title = "none"  -> None
                   [] k.title = "blank" -> Tag(<<" ">>, {})
                   [] k.title = "text"  -> Tag(<<" ", "Headline ", ToString(i), " ">>, {}),
     summary |-> CASE k.summary = "none" -> None
                   [] k.summary = "text" -> Tag(<<"Body ", ToString(i)>>, {}),
     link    |-> CASE k.link = "none"   -> None
                   [] k.link = "nohref" -> Tag(<<>>, {})
                   [] k.link = "href"   -> Tag(<<>>, {<<"href", <<"/news/", ToString(i)>> >>}),
     faulty  |-> k.faulty]

Complete == [title |-> "text", summary |-> "text", link |-> "href", faulty |-> FALSE]

\* The second shape of a pattern: a complete container, one whose inspection
\* raises, one without a title and one with a title alone
Fillers == {Complete,
            [Complete EXCEPT !.faulty = TRUE],
            [Complete EXCEPT !.title = "none"],
            [Complete EXCEPT !.summary = "none", !.link = "none"]}

\* Documents: n containers whose shapes repeat a pattern of one or two shapes
Patterns == {<<k>> : k \in ContainerShapes}
                \cup {<<k1, k2>> : k1 \in ContainerShapes, k2 \in Fillers}

Document(n, pat) == [i \in 1 .. n |-> Container(pat[((i - 1) % Len(pat)) + 1], i)]

Documents == {Document(n, pat) : n \in 0 .. MaxContainers, pat \in Patterns}

(************************ extractors ***************************************)
hours_real == 24
hours_mock == 48

Article(title, summary, url, source, published_at) ==
    [title |-> title, summary |-> summary, url |-> url, source |-> source,
     published_at |-> published_at]

\* The try block of InShortsScaper._extract_article_data
InShortsExtractBody(card, now, g) ==
    IF card.faulty THEN Raise("AttributeError")
    ELSE IF ~(Truthy(card.title) /\ Truthy(card.summary) /\ Truthy(card.link))
    THEN Return(None)
    ELSE Return(Article(GetText(card.title), GetText(card.summary),
                        TagGet(card.link, "href", <<>>), "inshorts",
                        now - randint(1, hours_real, g)))

\* Mutant: no stand-in for a missing summary element
HTSummaryNoFallback(element) ==
    IF Truthy(element.summary) THEN GetText(element.summary) ELSE <<>>

\* The summary of a Hindustan Times record: the title stands in for a missing
\* summary element
HTSummary(element) ==
    IF Truthy(element.summary) THEN GetText(element.summary) ELSE GetText(element.title)

\* The try block of HindustanTimesScaper._extract_article_data
HTExtractBody(element, now, g) ==
    IF element.faulty THEN Raise("AttributeError")
    ELSE IF ~(Truthy(element.title) /\ Truthy(element.link))
    THEN Return(None)
    ELSE LET summary == HTSummary(element)
         IN  Return(Article(GetText(element.title), summary,
                            TagGet(element.link, "href", <<>>), "hindustan_times",
                            now - randint(1, hours_real, g)))

ExtractBody(scraper, c, now, g) ==
    IF scraper = "InShortsScaper" THEN InShortsExtractBody(c, now, g) ELSE HTExtractBody(c, now, g)

\* _extract_article_data: except Exception logs and returns None
ExtractArticleData(scraper, c, now, g) ==
    LET r == ExtractBody(scraper, c, now, g)
    IN  IF r.kind = "raise" THEN Return(None) ELSE r

container_cap == 20

\* Mutant: no cap
CappedNot(cards) == cards

\* article_cards[:20]
Capped(cards) == SubSeq(cards, 1, Min(container_cap, Len(cards)))

\* The for loop of scrape_articles from card i on: a card whose extraction
\* raises or yields None is passed over
RECURSIVE ScrapeLoop(_, _, _, _, _, _)
ScrapeLoop(scraper, cards, i, now, g, articles) ==
    IF i > Len(cards) THEN [articles |-> articles, rng |-> g]
    ELSE LET r == ExtractArticleData(scraper, cards[i], now, g)
         IN  IF r.kind = "raise" \/ ~Truthy(r.value)
             THEN ScrapeLoop(scraper, cards, i + 1, now, g, articles)
             ELSE ScrapeLoop(scraper, cards, i + 1, now, Advance(g), Append(articles, r.value))

\* BeautifulSoup(response.content, 'lxml') and find_all: the containers, or an
\* error of the parser
Soup(content) ==
    IF content.parse_ok THEN Return(content.doc) ELSE Raise("FeatureNotFound")

\* The try block of scrape_articles (InShortsScaper and HindustanTimesScaper
\* differ in their extractor only)
ScrapeBody(scraper, answers, content, now, g) ==
    LET f == MakeRequest(answers, content, g)
    IN  IF f.out.kind = "raise"
        THEN [out |-> f.out, articles |-> <<>>, events |-> f.events, rng |-> f.rng]
        ELSE IF ~ResponseTruthy(f.out.value)
        THEN [out |-> Return(<<>>), articles |-> <<>>, events |-> f.events, rng |-> f.rng]
        ELSE LET soup == Soup(f.out.value.content)
             IN  IF soup.kind = "raise"
                 THEN [out |-> soup, articles |-> <<>>, events |-> f.events, rng |-> f.rng]
                 ELSE LET l == ScrapeLoop(scraper, Capped(soup.value), 1, now, f.rng, <<>>)
                      IN  [out |-> Return(l.articles), articles |-> l.articles,
                           events |-> f.events, rng |-> l.rng]

\* Mutant: no outer handler
ScrapeArticlesNoHandler(scraper, answers, content, now, g) ==
    LET b == ScrapeBody(scraper, answers, content, now, g)
    IN  [out |-> b.out, events |-> b.events, rng |-> b.rng]

\* scrape_articles: except Exception logs, and the articles gathered so far
\* are returned
ScrapeArticles(scraper, answers, content, now, g) ==
    LET b == ScrapeBody(scraper, answers, content, now, g)
    IN  IF b.out.kind = "raise"
        THEN [out |-> Return(b.articles), events |-> Append(b.events, EvError), rng |-> b.rng]
        ELSE [out |-> b.out, events |-> b.events, rng |-> b.rng]

(************************ mock scrapers and registry ***********************)
mock_count == 10

\* Mutant: the index of range(10) itself in the texts
MockInShortsArticleFromZero(i, now, g) ==
    Article(<<"InShorts Breaking News ", ToString(i), ": Important Development in Technology">>,
            <<"This is a mock summary for InShorts article ", ToString(i),
              ". It contains important information about recent developments in the technology sector.">>,
            <<"https://inshorts.com/news/", "article-", ToString(i)>>,
            "inshorts",
            now - randint(1, hours_mock, g))

MockInShortsArticle(i, now, g) ==
    Article(<<"InShorts Breaking News ", ToString(i + 1), ": Important Development in Technology">>,
            <<"This is a mock summary for InShorts article ", ToString(i + 1),
              ". It contains important information about recent developments in the technology sector.">>,
            <<"https://inshorts.com/news/", "article-", ToString(i + 1)>>,
            "inshorts",
            now - randint(1, hours_mock, g))

MockHTArticle(i, now, g) ==
    Article(<<"HT News Update ", ToString(i + 1), ": Major Political Development">>,
            <<"This is a mock summary for Hindustan Times article ", ToString(i + 1),
              ". It covers significant political developments and their implications.">>,
            <<"https://hindustantimes.com/news/", "article-", ToString(i + 1)>>,
            "hindustan_times",
            now - randint(1, hours_mock, g))

\* The for loop of a mock scrape_articles from index i of range(10) on
RECURSIVE MockLoop(_, _, _, _, _)
MockLoop(scraper, i, now, g, articles) ==
    IF i >= mock_count THEN [articles |-> articles, rng |-> g]
    ELSE MockLoop(scraper, i + 1, now, Advance(g),
                  Append(articles, IF scraper = "MockInShortsScaper"
                                   THEN MockInShortsArticle(i, now, g)
                                   ELSE MockHTArticle(i, now, g)))

MockScrapeArticles(scraper, now, g) == MockLoop(scraper, 0, now, g, <<>>)

Function(name) == [type |-> "function", name |-> name]

\* scrape_inshorts() and scrape_ht()
CallFunction(f, now, g) ==
    IF f.name = "scrape_inshorts"
    THEN MockScrapeArticles("MockInShortsScaper", now, g)
    ELSE MockScrapeArticles("MockHindustanTimesScaper", now, g)

\* The SCRAPERS registry
SCRAPERS == [inshorts |-> Function("scrape_inshorts"),
             hindustan_times |-> Function("scrape_ht")]

\* Mutant: a default function for an unknown source
get_scraper_function_default(source) ==
    IF source \in DOMAIN SCRAPERS THEN SCRAPERS[source] ELSE SCRAPERS["inshorts"]

\* get_scraper_function: SCRAPERS.get(source)
get_scraper_function(source) ==
    IF source \in DOMAIN SCRAPERS THEN SCRAPERS[source] ELSE None

SourceIds == {"inshorts", "hindustan_times", "unknown_source", "", "InShorts", "ht",
              "scrape_inshorts", "default"}

(************************ state machine ************************************)
Seeds == {[seed |-> s, pos |-> 0] : s \in 0 .. MaxSeed}

Scrapers == {"InShortsScaper", "HindustanTimesScaper"}

OK200 == [net |-> "status", code |-> 200]

\* A call of _make_request: the answers of the network to its attempts
InitMakeRequest ==
    /\ op = "make_request"
    /\ arg \in {[answers |-> a] : a \in [1 .. max_retries -> NetAnswers]}
    /\ rng \in Seeds
    /\ clock = 0

\* A call of _parse_date
InitParseDate ==
    /\ op = "parse_date"
    /\ arg \in {[date_str |-> t] : t \in DateTexts}
    /\ rng = [seed |-> 0, pos |-> 0]
    /\ clock \in 0 .. MaxClock

\* A call of scrape_articles of a real scraper: any answers of the network
\* with a document of one container, or a fetch that succeeds with any document
InitScrape ==
    /\ op = "scrape_articles"
    /\ \/ arg \in {[scraper |-> sc, answers |-> a,
                    content |-> [parse_ok |-> ok, doc |-> Document(1, <<k>>)]] :
                      sc \in Scrapers, a \in [1 .. max_retries -> NetAnswers],
                      ok \in BOOLEAN,
                      k \in {Complete}}
       \/ arg \in {[scraper |-> sc, answers |-> a,
                    content |-> [parse_ok |-> TRUE, doc |-> d]] :
                      sc \in Scrapers,
                      a \in {<<OK200, OK200, OK200>>},
                      d \in Documents}
    /\ rng \in Seeds
    /\ clock = 0

\* A call of _extract_article_data on one container
InitExtract ==
    /\ op = "extract_article_data"
    /\ arg \in {[scraper |-> sc, container |-> Container(k, i)] :
                  sc \in Scrapers, k \in ContainerShapes, i \in 1 .. 2}
    /\ rng \in Seeds
    /\ clock \in 0 .. MaxClock

\* A lookup in the registry, and calls of the function it answers
InitDispatch ==
    /\ op = "get_scraper_function"
    /\ arg \in {[source |-> s] : s \in SourceIds}
    /\ rng \in Seeds
    /\ clock \in 0 .. MaxClock

Init ==
    /\ \/ InitMakeRequest
       \/ InitParseDate
       \/ InitScrape
       \/ InitExtract
       \/ InitDispatch
    /\ pc = "ready"
    /\ ret = Return(None)
    /\ events = <<>>
    /\ calls = 0
    /\ prev = Return(None)
    /\ fn = None

CallMakeRequest ==
    /\ op = "make_request" /\ pc = "ready"
    /\ LET r == MakeRequest(arg.answers, <<>>, rng)
       IN  /\ ret' = r.out
           /\ events' = r.events
           /\ rng' = r.rng
    /\ pc' = "done"
    /\ calls' = calls + 1
    /\ UNCHANGED <<op, arg, clock, prev, fn>>

CallParseDate ==
    /\ op = "parse_date" /\ pc = "ready"
    /\ LET r == ParseDate(arg.date_str, clock)
       IN  /\ ret' = r.out
           /\ events' = r.events
    /\ pc' = "done"
    /\ calls' = calls + 1
    /\ UNCHANGED <<op, arg, rng, clock, prev, fn>>

CallScrapeArticles ==
    /\ op = "scrape_articles" /\ pc = "ready"
    /\ LET r == ScrapeArticles(arg.scraper, arg.answers, arg.content, clock, rng)
       IN  /\ ret' = r.out
           /\ events' = r.events
           /\ rng' = r.rng
    /\ pc' = "done"
    /\ calls' = calls + 1
    /\ UNCHANGED <<op, arg, clock, prev, fn>>

CallExtractArticleData ==
    /\ op = "extract_article_data" /\ pc = "ready"
    /\ ret' = ExtractArticleData(arg.scraper, arg.container, clock, rng)
    /\ rng' = IF ret'.value # None THEN Advance(rng) ELSE rng
    /\ events' = IF ExtractBody(arg.scraper, arg.container, clock, rng).kind = "raise"
                 THEN <<EvError>> ELSE <<>>
    /\ pc' = "done"
    /\ calls' = calls + 1
    /\ UNCHANGED <<op, arg, clock, prev, fn>>

CallGetScraperFunction ==
    /\ op = "get_scraper_function" /\ pc = "ready"
    /\ fn' = get_scraper_function(arg.source)
    /\ ret' = Return(fn')
    /\ pc' = "done"
    /\ UNCHANGED <<op, arg, events, rng, clock, calls, prev>>

\* The caller calls the function the registry answered, some time after the
\* last call
CallScraperFunction ==
    /\ op = "get_scraper_function" /\ pc = "done"
    /\ fn # None
    /\ calls < MaxCalls
    /\ \E t \in clock .. MaxClock :
          LET r == CallFunction(fn, t, rng)
          IN  /\ clock' = t
              /\ ret' = Return(r.articles)
              /\ rng' = r.rng
    /\ prev' = ret
    /\ calls' = calls + 1
    /\ UNCHANGED <<op, arg, pc, events, fn>>

Next ==
    \/ CallMakeRequest
    \/ CallParseDate
    \/ CallScrapeArticles
    \/ CallExtractArticleData
    \/ CallGetScraperFunction
    \/ CallScraperFunction

Spec == Init /\ [][Next]_vars

(************************ properties ***************************************)
Count(evs, kind) == Cardinality({i \in DOMAIN evs : evs[i].ev = kind})

\* An answer of the network that makes an attempt fail with a
\* RequestException: a timeout, a reset, an error status
TransportFailure(ans) ==
    \/ ans.net \in {"timeout", "reset"}
    \/ ans.net = "status" /\ ans.code >= 400

\* An answer that makes an attempt succeed
Succeeds(ans) == ans.net = "status" /\ ans.code < 400

\* An answer that makes an attempt fail with an error the handler does not take
Faults(ans) == ans.net = "fault"

MadeRequest == op = "make_request" /\ pc = "done"

AllAttemptsFail == \A i \in 1 .. 3 : TransportFailure(arg.answers[i])

FirstSuccessAt(k) ==
    /\ Succeeds(arg.answers[k])
    /\ \A j \in 1 .. k - 1 : TransportFailure(arg.answers[j])

FirstFaultAt(k) ==
    /\ Faults(arg.answers[k])
    /\ \A j \in 1 .. k - 1 : TransportFailure(arg.answers[j])

Sleeps == SelectSeq(events, LAMBDA e : e.ev = "sleep")

\* C1: when every attempt of _make_request fails with a transport failure,
\* the call returns None after exactly 3 requests, and the delays slept
\* between the attempts, jitter left out, are base * 2^attempt and strictly
\* increasing.
C1_AllFailReturnsNoneAfterThree ==
    (MadeRequest /\ AllAttemptsFail) =>
        /\ ret = Return(None)
        /\ Count(events, "get") = 3
        /\ Len(Sleeps) = 2
        /\ \A i \in 1 .. Len(Sleeps) :
              Sleeps[i].attempt = i - 1 /\ Sleeps[i].base = base_delay * Pow2(i - 1)
        /\ \A i \in 1 .. Len(Sleeps) : \A j \in 1 .. Len(Sleeps) :
              i < j => Sleeps[i].base < Sleeps[j].base

C1_Witness ==
    /\ MadeRequest /\ AllAttemptsFail
    /\ arg.answers[1].net = "timeout" /\ arg.answers[3].net = "reset"
    /\ Len(Sleeps) = 2

\* C2 as stated: _make_request never raises, whatever error the request ends in.
C2_NeverRaises == MadeRequest => ret.kind = "return"

\* C2 amended: _make_request raises exactly when an attempt ends in an error
\* that is not a RequestException before any attempt succeeded; that error
\* leaves the call at once, without a warning, a sleep or another request.
\* Failures that are RequestExceptions are retried up to the cap and end in a
\* response or in None.
C2_RaisesOnlyOtherErrors ==
    MadeRequest =>
        /\ ret.kind = "raise" <=> \E k \in 1 .. 3 : FirstFaultAt(k)
        /\ \A k \in 1 .. 3 : FirstFaultAt(k) =>
              /\ ret = Raise("OtherError")
              /\ Count(events, "get") = k
              /\ events[Len(events)] = EvGet(k - 1)
        /\ ret.kind = "return" => (ret.value = None \/ ret.value.type = "Response")
        /\ (\A i \in 1 .. 3 : ~Faults(arg.answers[i])) => ret.kind = "return"

C2_Witness ==
    /\ MadeRequest
    /\ TransportFailure(arg.answers[1]) /\ Faults(arg.answers[2])
    /\ ret.kind = "raise"

\* C10: in _make_request, when attempt k is the first to succeed its response
\* is returned after exactly k requests and k-1 sleeps; every sleep stands
\* between the warning of a failed attempt and the next request, nothing
\* follows a successful request, no sleep follows the third failure; one
\* warning is logged per attempt that failed with a request failure, and the
\* error is logged once, exactly when all 3 attempts failed.
C10_RetryOrder ==
    MadeRequest =>
        /\ \A k \in 1 .. 3 : FirstSuccessAt(k) =>
              /\ ret = Return(Response(arg.answers[k].code, <<>>))
              /\ Count(events, "get") = k
              /\ Count(events, "sleep") = k - 1
              /\ events[Len(events)] = EvGet(k - 1)
        /\ \A i \in DOMAIN events : events[i].ev = "sleep" =>
              /\ i > 1 /\ events[i - 1] = EvWarning(events[i].attempt)
              /\ i < Len(events) /\ events[i + 1] = EvGet(events[i].attempt + 1)
        /\ \A i \in DOMAIN events : events[i].ev = "get" =>
              /\ i = 1 \/ events[i - 1].ev = "sleep"
              /\ Succeeds(arg.answers[events[i].attempt + 1]) => i = Len(events)
        /\ Count(events, "warning") =
              Cardinality({i \in DOMAIN events :
                  events[i].ev = "get" /\ TransportFailure(arg.answers[events[i].attempt + 1])})
        /\ Count(events, "error") = (IF AllAttemptsFail THEN 1 ELSE 0)
        /\ AllAttemptsFail =>
              /\ events[Len(events)] = EvError
              /\ events[Len(events) - 1] = EvWarning(2)
              /\ Count(events, "sleep") = 2

C10_Witness ==
    /\ MadeRequest
    /\ FirstSuccessAt(3)
    /\ Count(events, "sleep") = 2 /\ Count(events, "warning") = 2
    /\ ret.kind = "return" /\ ret.value # None
(* -------- extraction -------- *)
Scraped == op = "scrape_articles" /\ pc = "done"

Extracted == op = "extract_article_data" /\ pc = "done"

\* The fetch of a scrape_articles call ends without a document
NoDocument ==
    \/ AllAttemptsFail
    \/ \E k \in 1 .. 3 : FirstFaultAt(k)

FetchedAndParsed ==
    /\ \E k \in 1 .. 3 : FirstSuccessAt(k)
    /\ arg.content.parse_ok

\* C3 as stated: every record scrape_articles returns has a non-empty title
\* and a non-empty source.
C3_TitleAndSourceNonEmpty ==
    (Scraped /\ ret.kind = "return") =>
        \A i \in DOMAIN ret.value :
            ret.value[i].title # <<>> /\ ret.value[i].source # ""

C6_ScrapeNeverRaises ==
    Scraped =>
        /\ ret.kind = "return"
        /\ NoDocument => ret.value = <<>>
        /\ ~arg.content.parse_ok => ret.value = <<>>
        /\ Len(ret.value) <= Len(arg.content.doc)

C6_Witness ==
    /\ Scraped /\ AllAttemptsFail
    /\ ret = Return(<<>>)

\* The containers among the first 20 whose extraction yields a record
Kept == {i \in 1 .. Min(20, Len(arg.content.doc)) :
            ExtractArticleData(arg.scraper, arg.content.doc[i], clock, rng).value # None}

Rank(i) == Cardinality({j \in Kept : j <= i})

\* C7: the records scrape_articles returns are the records of the containers
\* among the first 20, in document order, whose extraction succeeds: one
\* record per such container and no other, however many containers follow and
\* whichever containers are passed over.
C7_FirstTwentyInOrder ==
    (Scraped /\ FetchedAndParsed) =>
        /\ ret.kind = "return"
        /\ Len(ret.value) = Cardinality(Kept)
        /\ Len(ret.value) <= 20
        /\ rng.pos = Count(events, "sleep") + Len(ret.value)
        /\ \A i \in Kept :
              ret.value[Rank(i)] =
                  ExtractArticleData(arg.scraper, arg.content.doc[i], clock,
                      [rng EXCEPT !.pos = Count(events, "sleep") + Rank(i) - 1]).value

C7_Witness ==
    /\ Scraped /\ FetchedAndParsed
    /\ Len(arg.content.doc) > 20
    /\ arg.content.doc[2].faulty /\ arg.content.doc[20].faulty
    /\ 21 \notin Kept /\ arg.content.doc[21].title # None
    /\ Len(ret.value) = 10
(* -------- date normaliser -------- *)
Parsed == op = "parse_date" /\ pc = "done"

\* A text of three numeric fields that names year y, month m, day d of the calendar
ValidDate(y, m, d) ==
    /\ y >= 1000 /\ y <= 9999
    /\ m >= 1 /\ m <= 12
    /\ d >= 1 /\ d <= (IF m = 2 THEN (IF y % 4 = 0 /\ (y % 100 # 0 \/ y % 400 = 0) THEN 29 ELSE 28)
                       ELSE IF m \in {4, 6, 9, 11} THEN 30 ELSE 31)

ThreeFields(sep) ==
    /\ arg.date_str.type = "str"
    /\ arg.date_str.sep = sep
    /\ Len(arg.date_str.fields) = 3

\* C8: _parse_date never raises and returns a timestamp: the date read as
\* YYYY-MM-DD when the text is one, else as DD/MM/YYYY when it is one (also
\* when it is a MM/DD/YYYY date as well), else as MM/DD/YYYY when it is one,
\* else the current time.
C8_ParseDatePriority ==
    Parsed =>
        LET f == arg.date_str.fields
        IN  /\ ret.kind = "return"
            /\ ret.value.type = "datetime"
            /\ ret.value =
                 IF ThreeFields("-") /\ ValidDate(f[1], f[2], f[3])
                 THEN DateTime(f[1], f[2], f[3])
                 ELSE IF ThreeFields("/") /\ ValidDate(f[3], f[2], f[1])
                 THEN DateTime(f[3], f[2], f[1])
                 ELSE IF ThreeFields("/") /\ ValidDate(f[3], f[1], f[2])
                 THEN DateTime(f[3], f[1], f[2])
                 ELSE Now(clock)

\* 05/06/2024 is read as the 5th of June
C8_Witness ==
    /\ Parsed
    /\ arg.date_str = [type |-> "str", sep |-> "/", fields |-> <<5, 6, 2024>>]
    /\ ret = Return(DateTime(2024, 6, 5))

(* -------- registry and mock scrapers -------- *)
Resolved == op = "get_scraper_function" /\ pc = "done"

\* C5: get_scraper_function answers None for every source that is no key of
\* SCRAPERS, never a default function, and each registered source's own
\* function.
C5_UnknownSourceIsNone ==
    Resolved =>
        /\ arg.source = "inshorts" => fn = Function("scrape_inshorts")
        /\ arg.source = "hindustan_times" => fn = Function("scrape_ht")
        /\ arg.source \notin {"inshorts", "hindustan_times"} => fn = None
        /\ calls = 0 => ret = Return(fn)

C5_Witness ==
    /\ Resolved
    /\ arg.source = "unknown_source"
    /\ ret = Return(None)

Keys(articles) == [i \in DOMAIN articles |-> <<articles[i].title, articles[i].url>>]

\* C9: every call of the function registered for 'inshorts' returns exactly
\* 10 records, the i-th with a title holding the index i, a url ending in
\* article-<i> and source 'inshorts'; two successive calls return the same
\* titles and urls.
C9_MockInShortsTenRecords ==
    (Resolved /\ arg.source = "inshorts" /\ calls >= 1) =>
        /\ ret.kind = "return"
        /\ Len(ret.value) = 10
        /\ \A i \in 1 .. 10 :
              /\ \E k \in DOMAIN ret.value[i].title : ret.value[i].title[k] = ToString(i)
              /\ Len(ret.value[i].url) >= 2
              /\ SubSeq(ret.value[i].url, Len(ret.value[i].url) - 1, Len(ret.value[i].url))
                    = <<"article-", ToString(i)>>
              /\ ret.value[i].source = "inshorts"
        /\ calls >= 2 => Keys(prev.value) = Keys(ret.value)

\* Two calls whose records differ in published_at alone
C9_Witness ==
    /\ Resolved /\ arg.source = "inshorts" /\ calls = 2
    /\ Keys(prev.value) = Keys(ret.value)
    /\ prev.value # ret.value
====
